---- MODULE Spec2Model ----
(***************************************************************************)
(* Model of zsh-plugin-cli: plugin name validation (name.rs), the          *)
(* InitCommand normalisation and execution (cli.rs), the template context  *)
(* and the generation of the plugin tree on the filesystem (templates.rs). *)
(*                                                                         *)
(* Rust strings are TLA+ strings; a character is a string of length one.   *)
(* A path is the string of its components joined by "/".                   *)
(***************************************************************************)
EXTENDS Naturals, Integers, Sequences, FiniteSets, TLC

VARIABLES
    pc,        \* position of the program
    raw,       \* the NAME argument as typed
    name,      \* result of Name::from_str(raw)
    cmd,       \* the InitCommand
    force,     \* local `force` of InitCommand::execute / init_new_plugin
    ctx,       \* the tera Context
    fs,        \* the filesystem: existing path -> "dir" or file content
    result,    \* what the operation in progress returned
    progress,  \* steps that completed (one report_progress!() each)
    call,      \* arguments of the operation applied on its own
    exit_code, \* what InitCommand::execute handed back to main
    runs       \* number of executions of the program so far

vars == <<pc, raw, name, cmd, force, ctx, fs, result, progress, call, exit_code, runs>>

----------------------------------------------------------------------------
(* Bounds *)

MaxNameLen == 3   \* length of the raw NAME argument in the name specification
MaxRuns == 2      \* executions of the program on the same working directory
MaxFlags == 2     \* toggle flags given together on one command line of the program

(* Characters the raw NAME argument is drawn from: a lower and an upper    *)
(* case letter, a digit, the two permitted punctuation marks, one other.   *)
Alphabet == {"a", "Z", "2", "-", "_", "@"}

RECURSIVE StringsUpTo(_)
StringsUpTo(n) ==
    IF n = 0 THEN {""}
    ELSE LET shorter == StringsUpTo(n - 1)
         IN  shorter \cup {s \o c : s \in shorter, c \in Alphabet}

RawNames == StringsUpTo(MaxNameLen)

----------------------------------------------------------------------------
(* Characters: char::is_ascii_alphabetic, is_ascii_alphanumeric,           *)
(* to_ascii_uppercase                                                      *)

LowerCase == "abcdefghijklmnopqrstuvwxyz"
UpperCase == "ABCDEFGHIJKLMNOPQRSTUVWXYZ"
Digits == "0123456789"

CharAt(s, i) == SubSeq(s, i, i)

CharsOf(s) == {CharAt(s, i) : i \in 1..Len(s)}

is_ascii_alphabetic(c) == c \in CharsOf(LowerCase) \cup CharsOf(UpperCase)

is_ascii_alphanumeric(c) == is_ascii_alphabetic(c) \/ c \in CharsOf(Digits)

char_to_ascii_uppercase(c) ==
    IF \E i \in 1..Len(LowerCase) : CharAt(LowerCase, i) = c
    THEN CharAt(UpperCase, CHOOSE i \in 1..Len(LowerCase) : CharAt(LowerCase, i) = c)
    ELSE c

RECURSIVE to_ascii_uppercase(_)
to_ascii_uppercase(s) ==
    IF s = "" THEN ""
    ELSE char_to_ascii_uppercase(CharAt(s, 1)) \o to_ascii_uppercase(Tail(s))

(* str::replacen(from, to, 1): only the first occurrence is replaced *)
replace_first(s, from, to) ==
    IF \E i \in 1..Len(s) : CharAt(s, i) = from
    THEN LET i == CHOOSE j \in 1..Len(s) : CharAt(s, j) = from /\ \A k \in 1..(j - 1) : CharAt(s, k) # from
         IN  SubSeq(s, 1, i - 1) \o to \o SubSeq(s, i + 1, Len(s))
    ELSE s

(* str::replace(from, to) for a one-character pattern *)
RECURSIVE replace(_, _, _)
replace(s, from, to) ==
    IF s = "" THEN ""
    ELSE (IF CharAt(s, 1) = from THEN to ELSE CharAt(s, 1)) \o replace(Tail(s), from, to)

----------------------------------------------------------------------------
(* name.rs *)

NameErrorKind == {"Empty", "InvalidInitialChar", "InvalidChar"}

(* Result<T, Error>; `Pending` stands for "nothing returned yet" *)
Pending == [ok |-> FALSE, kind |-> "Pending"]
Ok(v) == [ok |-> TRUE, kind |-> "Ok", value |-> v]
ErrInvalidName(k) == [ok |-> FALSE, kind |-> "InvalidName", name_kind |-> k]

(* the closure of chars.all(..) in Name::from_str *)
name_char_ok(c) == is_ascii_alphanumeric(c) \/ c = "-" \/ c = "_"

(* from_str without the separate test of the first character *)
from_str_any_initial(s) ==
    IF s = "" THEN ErrInvalidName("Empty")
    ELSE IF ~(\A i \in 1..Len(s) : name_char_ok(CharAt(s, i))) THEN ErrInvalidName("InvalidChar")
    ELSE Ok(s)

(* from_str testing the later characters before the first one *)
from_str_rest_first(s) ==
    IF s = "" THEN ErrInvalidName("Empty")
    ELSE IF ~(\A i \in 2..Len(s) : name_char_ok(CharAt(s, i))) THEN ErrInvalidName("InvalidChar")
    ELSE IF ~is_ascii_alphabetic(CharAt(s, 1)) THEN ErrInvalidName("InvalidInitialChar")
    ELSE Ok(s)

(* impl FromStr for Name *)
from_str(s) ==
    IF s = "" THEN ErrInvalidName("Empty")
    ELSE IF ~is_ascii_alphabetic(CharAt(s, 1)) THEN ErrInvalidName("InvalidInitialChar")
    ELSE IF ~(\A i \in 2..Len(s) : name_char_ok(CharAt(s, i))) THEN ErrInvalidName("InvalidChar")
    ELSE Ok(s)

----------------------------------------------------------------------------
(* cli.rs: InitCommand, Template, normalize *)

Templates == {"Minimal", "Simple", "Complete"}
NoTemplate == "None"

NoDescription == [some |-> FALSE]
SomeDescription(d) == [some |-> TRUE, value |-> d]

(* the nine fields of InitCommand that conflict with --template *)
ToggleFields == {"add_bin_dir", "add_bash_wrapper", "no_aliases", "no_shell_check",
                 "no_functions_dir", "no_git_init", "no_github_dir", "no_readme",
                 "no_shell_spec"}

(* InitCommand as clap builds it when only NAME and --gihub-user are given *)
DefaultCommand(n, user) ==
    [force |-> FALSE, template |-> NoTemplate,
     add_bin_dir |-> FALSE, add_bash_wrapper |-> FALSE, no_aliases |-> FALSE,
     no_shell_check |-> FALSE, no_functions_dir |-> FALSE, no_git_init |-> FALSE,
     no_github_dir |-> FALSE, no_readme |-> FALSE, no_shell_spec |-> FALSE,
     gihub_user |-> user, use_zplugins |-> FALSE, description |-> NoDescription,
     name |-> n]

(* normalize whose Minimal arm forgets to reset no_git_init and add_bin_dir *)
normalize_minimal_partial(c) ==
    IF c.template = "Minimal" THEN
        [c EXCEPT !.add_bash_wrapper = FALSE, !.no_aliases = TRUE,
                  !.no_functions_dir = TRUE, !.no_github_dir = TRUE,
                  !.no_readme = TRUE, !.no_shell_check = TRUE, !.no_shell_spec = TRUE]
    ELSE IF c.template = "Simple" THEN
        [c EXCEPT !.add_bin_dir = FALSE, !.add_bash_wrapper = FALSE, !.no_aliases = FALSE,
                  !.no_functions_dir = TRUE, !.no_github_dir = TRUE, !.no_git_init = FALSE,
                  !.no_readme = FALSE, !.no_shell_check = FALSE, !.no_shell_spec = FALSE]
    ELSE
        [c EXCEPT !.add_bin_dir = TRUE, !.add_bash_wrapper = TRUE, !.no_aliases = FALSE,
                  !.no_functions_dir = FALSE, !.no_github_dir = FALSE, !.no_git_init = FALSE,
                  !.no_readme = FALSE, !.no_shell_check = FALSE, !.no_shell_spec = FALSE]

(* normalize whose Simple arm leaves the readme toggle as it was given *)
normalize_simple_keeps_readme(c) ==
    IF c.template = "Minimal" THEN
        [c EXCEPT !.add_bin_dir = FALSE, !.add_bash_wrapper = FALSE, !.no_aliases = TRUE,
                  !.no_functions_dir = TRUE, !.no_github_dir = TRUE, !.no_git_init = FALSE,
                  !.no_readme = TRUE, !.no_shell_check = TRUE, !.no_shell_spec = TRUE]
    ELSE IF c.template = "Simple" THEN
        [c EXCEPT !.add_bin_dir = FALSE, !.add_bash_wrapper = FALSE, !.no_aliases = FALSE,
                  !.no_functions_dir = TRUE, !.no_github_dir = TRUE, !.no_git_init = FALSE,
                  !.no_shell_check = FALSE, !.no_shell_spec = FALSE]
    ELSE
        [c EXCEPT !.add_bin_dir = TRUE, !.add_bash_wrapper = TRUE, !.no_aliases = FALSE,
                  !.no_functions_dir = FALSE, !.no_github_dir = FALSE, !.no_git_init = FALSE,
                  !.no_readme = FALSE, !.no_shell_check = FALSE, !.no_shell_spec = FALSE]

(* InitCommand::normalize *)
normalize(c) ==
    IF c.template = "Minimal" THEN
        [c EXCEPT !.add_bin_dir = FALSE, !.add_bash_wrapper = FALSE, !.no_aliases = TRUE,
                  !.no_functions_dir = TRUE, !.no_github_dir = TRUE, !.no_git_init = FALSE,
                  !.no_readme = TRUE, !.no_shell_check = TRUE, !.no_shell_spec = TRUE]
    ELSE IF c.template = "Simple" THEN
        [c EXCEPT !.add_bin_dir = FALSE, !.add_bash_wrapper = FALSE, !.no_aliases = FALSE,
                  !.no_functions_dir = TRUE, !.no_github_dir = TRUE, !.no_git_init = FALSE,
                  !.no_readme = FALSE, !.no_shell_check = FALSE, !.no_shell_spec = FALSE]
    ELSE \* Some(Template::Complete) | None
        [c EXCEPT !.add_bin_dir = TRUE, !.add_bash_wrapper = TRUE, !.no_aliases = FALSE,
                  !.no_functions_dir = FALSE, !.no_github_dir = FALSE, !.no_git_init = FALSE,
                  !.no_readme = FALSE, !.no_shell_check = FALSE, !.no_shell_spec = FALSE]

----------------------------------------------------------------------------
(* templates.rs: the tera Context *)

V_GITHUB_USER == "github_user"
V_PLUGIN_DISPLAY_NAME == "plugin_display_name"
V_PLUGIN_NAME == "plugin_name"
V_PLUGIN_VAR == "plugin_var"
V_SHORT_DESCRIPTION == "short_description"

O_INCLUDE_ALIASES == "include_aliases"
O_INCLUDE_BASH_WRAPPER == "include_bash_wrapper"
O_INCLUDE_BIN_DIR == "include_bin_dir"
O_INCLUDE_FUNCTIONS_DIR == "include_functions_dir"
O_INCLUDE_GIT_INIT == "include_git_init"
O_INCLUDE_GITHUB_DIR == "include_github_dir"
O_INCLUDE_README == "include_readme"
O_INCLUDE_SHELL_CHECK == "include_shell_check"
O_INCLUDE_SHELL_SPEC == "include_shell_spec"
O_USE_ZPLUGINS == "use_zplugins"

(* serde_json::Value, as far as the context uses it *)
Bool(b) == [t |-> "bool", b |-> b]
Str(s) == [t |-> "str", s |-> s]

(* Context::new and Context::insert (a map: a later insert replaces) *)
Context_new == [k \in {} |-> Str("")]
insert(c, key, v) == [k \in DOMAIN c \cup {key} |-> IF k = key THEN v ELSE c[k]]

ErrUnknown(msg) == [ok |-> FALSE, kind |-> "Unknown", message |-> msg]

ctx_get_str(c, key) ==
    IF key \in DOMAIN c /\ c[key].t = "str" THEN Ok(c[key].s)
    ELSE ErrUnknown("Missing or invalid context key: " \o key)

ctx_get_bool(c, key) ==
    IF key \in DOMAIN c /\ c[key].t = "bool" THEN Ok(c[key].b)
    ELSE ErrUnknown("Missing or invalid context key: " \o key)

(* the context builder without the insert of use_zplugins *)
ContextFrom_without_zplugins(c) ==
    LET c1 == insert(Context_new, O_INCLUDE_ALIASES, Bool(~c.no_aliases))
        c2 == insert(c1, O_INCLUDE_BASH_WRAPPER, Bool(c.add_bash_wrapper))
        c3 == insert(c2, O_INCLUDE_BIN_DIR, Bool(c.add_bin_dir))
        c4 == insert(c3, O_INCLUDE_FUNCTIONS_DIR, Bool(~c.no_functions_dir))
        c5 == insert(c4, O_INCLUDE_GITHUB_DIR, Bool(~c.no_github_dir))
        c6 == insert(c5, O_INCLUDE_GIT_INIT, Bool(~c.no_git_init))
        c7 == insert(c6, O_INCLUDE_README, Bool(~c.no_readme))
        c8 == insert(c7, O_INCLUDE_SHELL_CHECK, Bool(~c.no_shell_check))
        c9 == insert(c8, O_INCLUDE_SHELL_SPEC, Bool(~c.no_shell_spec))
        c11 == insert(c9, V_SHORT_DESCRIPTION,
                      Str(IF c.description.some THEN c.description.value
                          ELSE "Zsh plugin to do something..."))
        display_name == c.name
        plugin_name == replace(display_name, "-", "_")
        plugin_var == to_ascii_uppercase(plugin_name)
        c12 == insert(c11, V_PLUGIN_DISPLAY_NAME, Str(display_name))
        c13 == insert(c12, V_PLUGIN_NAME, Str(plugin_name))
        c14 == insert(c13, V_PLUGIN_VAR, Str(plugin_var))
        c15 == insert(c14, V_GITHUB_USER, Str(c.gihub_user))
        c16 == insert(c15, "_shv_start", Str("${"))
    IN  insert(c16, "_shv_end", Str("}"))

(* impl From<InitCommand> for Context *)
ContextFrom(c) ==
    LET c1 == insert(Context_new, O_INCLUDE_ALIASES, Bool(~c.no_aliases))
        c2 == insert(c1, O_INCLUDE_BASH_WRAPPER, Bool(c.add_bash_wrapper))
        c3 == insert(c2, O_INCLUDE_BIN_DIR, Bool(c.add_bin_dir))
        c4 == insert(c3, O_INCLUDE_FUNCTIONS_DIR, Bool(~c.no_functions_dir))
        c5 == insert(c4, O_INCLUDE_GITHUB_DIR, Bool(~c.no_github_dir))
        c6 == insert(c5, O_INCLUDE_GIT_INIT, Bool(~c.no_git_init))
        c7 == insert(c6, O_INCLUDE_README, Bool(~c.no_readme))
        c8 == insert(c7, O_INCLUDE_SHELL_CHECK, Bool(~c.no_shell_check))
        c9 == insert(c8, O_INCLUDE_SHELL_SPEC, Bool(~c.no_shell_spec))
        c10 == insert(c9, O_USE_ZPLUGINS, Bool(c.use_zplugins))
        c11 == insert(c10, V_SHORT_DESCRIPTION,
                      Str(IF c.description.some THEN c.description.value
                          ELSE "Zsh plugin to do something..."))
        display_name == c.name
        plugin_name == replace(display_name, "-", "_")
        plugin_var == to_ascii_uppercase(plugin_name)
        c12 == insert(c11, V_PLUGIN_DISPLAY_NAME, Str(display_name))
        c13 == insert(c12, V_PLUGIN_NAME, Str(plugin_name))
        c14 == insert(c13, V_PLUGIN_VAR, Str(plugin_var))
        c15 == insert(c14, V_GITHUB_USER, Str(c.gihub_user))
        c16 == insert(c15, "_shv_start", Str("${"))
    IN  insert(c16, "_shv_end", Str("}"))

----------------------------------------------------------------------------
(* The filesystem as std::fs and std::path see it.  All paths are relative *)
(* to the working directory, which is the node WorkDir of the tree: it     *)
(* exists and is a directory, with or without search permission.           *)

Dir == [kind |-> "dir"]
(* a directory whose mode gives the process no search permission *)
DirNoSearch == [kind |-> "dir", search |-> FALSE]
File(content) == [kind |-> "file", content |-> content]

(* file contents: a literal text, and what a write that failed after it    *)
(* had written some of `content` left behind                               *)
Text(s) == [text |-> s]
PartOf(content) == [part_of |-> content]

(* the working directory of the process, which every relative path is     *)
(* resolved from                                                           *)
WorkDir == "."

(* an empty working directory the process may search *)
EmptyFs == [p \in {WorkDir} |-> Dir]

(* Path::join *)
join(path, component) == path \o "/" \o component

(* the proper ancestors of a relative path, the working directory excepted *)
Ancestors(path) == {SubSeq(path, 1, i - 1) : i \in {j \in 1..Len(path) : CharAt(path, j) = "/"}}

(* Path::exists, Path::is_dir, Path::is_file *)
(* stat(path) can look the path up: neither the working directory nor a   *)
(* directory between it and the path refuses search                        *)
CanStat(f, path) ==
    \A q \in {WorkDir} \cup Ancestors(path) : q \in DOMAIN f => f[q] # DirNoSearch

(* These answer false when stat fails, whatever is at the path. *)
exists(f, path) == path \in DOMAIN f /\ CanStat(f, path)
is_dir(f, path) == path \in DOMAIN f /\ CanStat(f, path) /\ f[path].kind = "dir"
is_file(f, path) == path \in DOMAIN f /\ CanStat(f, path) /\ f[path].kind = "file"

Unit == "()"
ErrIo(op, path) == [ok |-> FALSE, kind |-> "Io", source |-> [op |-> op, path |-> path]]
ErrGitInit(path) == [ok |-> FALSE, kind |-> "GitInit", source |-> [op |-> "Repository::init", path |-> path]]
ErrTemplate(template) == [ok |-> FALSE, kind |-> "Template", source |-> [op |-> "render_str", template |-> template]]
ErrTargetExists(path) == [ok |-> FALSE, kind |-> "TargetExists", path |-> path]

(* f with every path of `chain` that is missing created as a directory *)
WithDirs(f, chain) == [q \in DOMAIN f \cup chain |-> IF q \in DOMAIN f THEN f[q] ELSE Dir]

(* How a call into std::fs ended: it succeeded, or it failed after `done`  *)
(* of its effects had taken place.                                         *)
MaxIoDone == 2    \* effects a failing call into std::fs completed before it failed
IoOk == [ok |-> TRUE, done |-> 0]
IoFailed(k) == [ok |-> FALSE, done |-> k]
IoOutcomes == {IoOk} \cup {IoFailed(k) : k \in 0..MaxIoDone}

(* the k topmost paths of a set of nested paths *)
Topmost(paths, k) == {q \in paths : Cardinality({r \in paths : Len(r) < Len(q)}) < k}

(* std::fs::create_dir_all: makes the missing directories from the top    *)
(* down, one mkdir each, and stops at the first mkdir that fails: the      *)
(* directories made before it stay.  It fails by itself, before making     *)
(* anything, when a component of the path is a regular file or when the    *)
(* working directory or a directory above the path refuses search.         *)
create_dir_all(f, path, io) ==
    LET chain == Ancestors(path) \cup {path}
        missing == {q \in chain : ~exists(f, q)}
        made == IF missing = {} THEN 0
                ELSE IF io.done < Cardinality(missing) THEN io.done
                ELSE Cardinality(missing) - 1
    IN  IF ~CanStat(f, path) \/ \E q \in chain : is_file(f, q)
        THEN [fs |-> f, res |-> ErrIo("create_dir_all", path)]
        ELSE IF io.ok
        THEN [fs |-> WithDirs(f, chain), res |-> Ok(Unit)]
        ELSE [fs |-> WithDirs(f, Topmost(missing, made)), res |-> ErrIo("create_dir_all", path)]

(* std::fs::write: opens the file with create + truncate, then writes the  *)
(* content.  The open needs the parent directory and a path that is not a  *)
(* directory.  A failure of the open (done = 0) changes nothing; a failure *)
(* of the first write leaves the file created or truncated, empty; a later *)
(* failure leaves part of the content.                                     *)
write(f, path, content, io) ==
    LET opens == CanStat(f, path) /\ ~is_dir(f, path) /\ \A q \in Ancestors(path) : is_dir(f, q)
        left == IF io.ok THEN content
                ELSE IF io.done = 1 THEN Text("")
                ELSE PartOf(content)
    IN  IF opens /\ (io.ok \/ io.done > 0)
        THEN [fs |-> [q \in DOMAIN f \cup {path} |-> IF q = path THEN File(left) ELSE f[q]],
              res |-> IF io.ok THEN Ok(Unit) ELSE ErrIo("write", path)]
        ELSE [fs |-> f, res |-> ErrIo("write", path)]

(* Repository::init that also leaves a .gitignore in the work tree *)
Repository_init_with_gitignore(f, path, git) ==
    LET chain == Ancestors(path) \cup {path, join(path, ".git")}
    IN  IF git.ok /\ CanStat(f, join(path, ".git")) /\ \A q \in chain : ~is_file(f, q)
        THEN [fs |-> [q \in DOMAIN f \cup chain \cup {join(path, ".gitignore")} |->
                        IF q \in DOMAIN f THEN f[q]
                        ELSE IF q \in chain THEN Dir ELSE File(Text(""))],
              res |-> Ok(Unit)]
        ELSE [fs |-> f, res |-> ErrGitInit(path)]

(* git2::Repository::init: creates (or re-initialises) path/.git, making    *)
(* the directories on the way from the top down.  It fails by itself,      *)
(* before making anything, when a component is a regular file or a         *)
(* directory above path/.git refuses search.  A failure of libgit2 after   *)
(* `done` directories leaves them behind, path/.git included when it fails *)
(* while filling it.                                                       *)
Repository_init(f, path, git) ==
    LET chain == Ancestors(path) \cup {path, join(path, ".git")}
        missing == {q \in chain : ~exists(f, q)}
        made == IF git.done < Cardinality(missing) THEN git.done ELSE Cardinality(missing)
    IN  IF ~CanStat(f, join(path, ".git")) \/ \E q \in chain : is_file(f, q)
        THEN [fs |-> f, res |-> ErrGitInit(path)]
        ELSE IF git.ok
        THEN [fs |-> WithDirs(f, chain), res |-> Ok(Unit)]
        ELSE [fs |-> WithDirs(f, Topmost(missing, made)), res |-> ErrGitInit(path)]

(* Tera::render_str: the rendered text is identified by its template *)
render_str(template, c, render_ok) ==
    IF render_ok THEN Ok([template |-> template]) ELSE ErrTemplate(template)

----------------------------------------------------------------------------
(* templates.rs: the three plan steps *)

(* make_repository that refuses an existing .git even under force *)
make_repository_refuses_existing(f, path, frc, git) ==
    LET repo_dir == join(path, ".git")
    IN  IF ~exists(f, repo_dir)
        THEN Repository_init(f, path, git)
        ELSE [fs |-> f, res |-> ErrTargetExists(repo_dir)]

make_repository(f, path, frc, git) ==
    LET repo_dir == join(path, ".git")
    IN  IF ~exists(f, repo_dir) \/ (is_dir(f, repo_dir) /\ frc)
        THEN Repository_init(f, path, git)
        ELSE [fs |-> f, res |-> ErrTargetExists(repo_dir)]

(* make_directory that never reuses an existing directory *)
make_directory_never_reuses(f, path, frc, io) ==
    IF ~exists(f, path)
    THEN create_dir_all(f, path, io)
    ELSE [fs |-> f, res |-> ErrTargetExists(path)]

(* make_directory that reuses an existing directory without force *)
make_directory_reuses_unforced(f, path, frc, io) ==
    IF ~exists(f, path) \/ is_dir(f, path)
    THEN create_dir_all(f, path, io)
    ELSE [fs |-> f, res |-> ErrTargetExists(path)]

make_directory(f, path, frc, io) ==
    IF ~exists(f, path) \/ (is_dir(f, path) /\ frc)
    THEN create_dir_all(f, path, io)
    ELSE [fs |-> f, res |-> ErrTargetExists(path)]

(* render_template that overwrites an existing file whatever `force` says *)
render_template_always_overwrites(f, c, template, file_path, frc, render_ok, io) ==
    IF ~exists(f, file_path) \/ is_file(f, file_path)
    THEN LET rendered == render_str(template, c, render_ok)
         IN  IF rendered.ok
             THEN write(f, file_path, rendered.value, io)
             ELSE [fs |-> f, res |-> rendered]
    ELSE [fs |-> f, res |-> ErrTargetExists(file_path)]

(* render_template that truncates the target before it renders *)
render_template_truncates_first(f, c, template, file_path, frc, render_ok, io) ==
    IF ~exists(f, file_path) \/ (is_file(f, file_path) /\ frc)
    THEN LET opened == write(f, file_path, Text(""), IoOk)
             rendered == render_str(template, c, render_ok)
         IN  IF ~opened.res.ok THEN opened
             ELSE IF rendered.ok
             THEN write(opened.fs, file_path, rendered.value, io)
             ELSE [fs |-> opened.fs, res |-> rendered]
    ELSE [fs |-> f, res |-> ErrTargetExists(file_path)]

render_template(f, c, template, file_path, frc, render_ok, io) ==
    IF ~exists(f, file_path) \/ (is_file(f, file_path) /\ frc)
    THEN LET rendered == render_str(template, c, render_ok)
         IN  IF rendered.ok
             THEN write(f, file_path, rendered.value, io)
             ELSE [fs |-> f, res |-> rendered]
    ELSE [fs |-> f, res |-> ErrTargetExists(file_path)]

----------------------------------------------------------------------------
(* Values of the variables a specification does not use *)

NoCall == [op |-> "none"]
IdleUser == "u"

Idle(excluded) ==
    /\ "raw" \in excluded \/ raw = ""
    /\ "cmd" \in excluded \/ cmd = DefaultCommand("", IdleUser)
    /\ "fs" \in excluded \/ fs = EmptyFs
    /\ "call" \in excluded \/ call = NoCall
    /\ name = Pending
    /\ force = FALSE
    /\ ctx = Context_new
    /\ result = Pending
    /\ progress = <<>>
    /\ exit_code = "none"
    /\ runs = 0

----------------------------------------------------------------------------
(* Name validation followed by the construction of the context: the NAME   *)
(* argument goes through Name::from_str (clap's value parser), then        *)
(* InitCommand::execute normalizes the command and converts it.            *)

InitName ==
    /\ pc = "name_input"
    /\ raw \in RawNames
    /\ Idle({"raw"})

ParseName ==
    /\ pc = "name_input"
    /\ name' = from_str(raw)
    /\ IF name'.ok
       THEN pc' = "cmd" /\ cmd' = DefaultCommand(name'.value, IdleUser)
       ELSE pc' = "name_rejected" /\ UNCHANGED cmd
    /\ UNCHANGED <<raw, force, ctx, fs, result, progress, call, exit_code, runs>>

(* InitCommand::execute, first two statements *)
Normalize ==
    /\ pc = "cmd"
    /\ force' = cmd.force
    /\ cmd' = normalize(cmd)
    /\ pc' = "normalized"
    /\ UNCHANGED <<raw, name, ctx, fs, result, progress, call, exit_code, runs>>

(* InitCommand::execute, `self.into()` *)
BuildContext ==
    /\ pc = "normalized"
    /\ ctx' = ContextFrom(cmd)
    /\ pc' = "context"
    /\ UNCHANGED <<raw, name, cmd, force, fs, result, progress, call, exit_code, runs>>

NextName == ParseName \/ Normalize \/ BuildContext

SpecName == InitName /\ [][NextName]_vars

----------------------------------------------------------------------------
(* Resolution of the toggles: normalize and the context builder applied to *)
(* every InitCommand value; `call` keeps the command as it was given.      *)

Descriptions == {NoDescription, SomeDescription("d")}

InitCommands ==
    [force : BOOLEAN, template : Templates \cup {NoTemplate},
     add_bin_dir : BOOLEAN, add_bash_wrapper : BOOLEAN, no_aliases : BOOLEAN,
     no_shell_check : BOOLEAN, no_functions_dir : BOOLEAN, no_git_init : BOOLEAN,
     no_github_dir : BOOLEAN, no_readme : BOOLEAN, no_shell_spec : BOOLEAN,
     gihub_user : {IdleUser}, use_zplugins : BOOLEAN, description : Descriptions,
     name : {"my-plugin"}]

InitResolve ==
    /\ pc = "cmd"
    /\ cmd \in InitCommands
    /\ call = [op |-> "execute", cmd |-> cmd]
    /\ Idle({"cmd", "call"})

NextResolve == Normalize \/ BuildContext

SpecResolve == InitResolve /\ [][NextResolve]_vars

----------------------------------------------------------------------------
(* One plan step applied to a filesystem in which its target, and the      *)
(* directory around it, may or may not exist, as a directory or as a file. *)

StepRoot == "zsh-a-plugin"
StepUniverse == {StepRoot, join(StepRoot, ".git"), join(StepRoot, "bin"), join(StepRoot, "README.md")}

StepFilesystems ==
    {f \in UNION {[D \cup {WorkDir} -> {Dir, DirNoSearch, File(Text("old"))}] :
                      D \in SUBSET StepUniverse} :
        /\ f[WorkDir].kind = "dir"
        /\ \A p \in DOMAIN f : \A q \in Ancestors(p) : q \in DOMAIN f /\ f[q].kind = "dir"}

(* what Path::exists, Path::is_dir and Path::is_file report of a path *)
NodeKind(f, path) ==
    IF ~exists(f, path) THEN "none" ELSE IF is_dir(f, path) THEN "dir" ELSE "file"

StepCalls ==
    [op : {"make_directory"}, path : {StepRoot, join(StepRoot, "bin"), join(StepRoot, "README.md")},
     force : BOOLEAN, template : {""}, io : IoOutcomes, render_ok : {TRUE}]
    \cup
    [op : {"make_repository"}, path : {StepRoot},
     force : BOOLEAN, template : {""}, io : IoOutcomes, render_ok : {TRUE}]
    \cup
    [op : {"render_template"}, path : {join(StepRoot, "README.md"), join(StepRoot, "bin")},
     force : BOOLEAN, template : {"templates/README.md"}, io : IoOutcomes, render_ok : BOOLEAN]

(* `found` records what the process saw at the step's target when it was   *)
(* called                                                                  *)
InitStep ==
    /\ pc = "call"
    /\ fs \in StepFilesystems
    /\ \E c \in StepCalls :
          call = [op |-> c.op, path |-> c.path, force |-> c.force, template |-> c.template,
                  io |-> c.io, render_ok |-> c.render_ok,
                  found |-> NodeKind(fs, IF c.op = "make_repository"
                                         THEN join(c.path, ".git") ELSE c.path)]
    /\ Idle({"fs", "call"})

(* the steps as `progress` records them *)
DirectoryStep(path) == [op |-> "make_directory", path |-> path]
RepositoryStep(path) == [op |-> "make_repository", path |-> path]
RenderStep(template, path) == [op |-> "render_template", template |-> template, path |-> path]

(* `progress` gets the dot the step printed when it returned Ok; print!    *)
(* leaves the dot in the line buffer of standard output, so it cannot fail *)
Returned(r, step) ==
    /\ fs' = r.fs
    /\ result' = r.res
    /\ progress' = IF r.res.ok THEN Append(progress, step) ELSE progress
    /\ pc' = "returned"
    /\ UNCHANGED <<raw, name, cmd, force, ctx, call, exit_code, runs>>

CallMakeDirectory ==
    /\ pc = "call" /\ call.op = "make_directory"
    /\ Returned(make_directory(fs, call.path, call.force, call.io), DirectoryStep(call.path))

CallMakeRepository ==
    /\ pc = "call" /\ call.op = "make_repository"
    /\ Returned(make_repository(fs, call.path, call.force, call.io), RepositoryStep(call.path))

CallRenderTemplate ==
    /\ pc = "call" /\ call.op = "render_template"
    /\ Returned(render_template(fs, ctx, call.template, call.path, call.force,
                                call.render_ok, call.io),
                RenderStep(call.template, call.path))

NextStep == CallMakeDirectory \/ CallMakeRepository \/ CallRenderTemplate

SpecStep == InitStep /\ [][NextStep]_vars

----------------------------------------------------------------------------
(* templates.rs: names of the generated paths and of the template bodies *)

P_BIN_DIR == "bin"
P_DOT_GITIGNORE == ".gitignore"
P_DOT_KEEP == ".gitkeep"
P_FUNCTIONS_DIR == "functions"
P_GITHUB_DIR == ".github"
P_MAKEFILE == "Makefile"
P_README == "README.md"
P_SHELL_YML == "shell.yml"
P_WORKFLOWS_DIR == "workflows"

T_BIN_DIR_KEEP == "templates/bin/.keep"
T_FUNCTIONS_EXAMPLE == "templates/functions/name_example"
T_GIT_IGNORE == "templates/.gitignore"
T_GITHUB_WORFLOW_SHELL == "templates/.github/workflows/shell.yml"
T_MAKEFILE == "templates/Makefile"
T_PLUGIN_SOURCE == "templates/name.plugin.zsh"
T_PLUGIN_SOURCE_ZPLUGINS == "templates/name.zplugins.zsh"
T_PLUGIN_WRAPPER == "templates/name.bash"
T_README == "templates/README.md"


(* init_new_plugin: `plugin_name` and `target_root` *)
plugin_name_of(c) == ctx_get_str(c, V_PLUGIN_NAME)
(* the root named by the plugin name alone *)
target_root_unwrapped(plugin_name) == plugin_name

target_root(plugin_name) == "zsh-" \o plugin_name \o "-plugin"

----------------------------------------------------------------------------
(* The program: main, InitCommand::execute and init_new_plugin, one action *)
(* per plan step.  The program is started in a working directory that is   *)
(* empty or already holds a plugin root, and that the process may or may   *)
(* not search; it may be run again on the filesystem an earlier run left   *)
(* behind.                                                                 *)

(* NAME arguments given on the command line *)
CliNames == {"my-plugin", "2bad"}

(* what clap accepts: --template conflicts with each of the nine toggles;   *)
(* at most MaxFlags of the toggles are given at once                       *)
CliCommands ==
    {c \in [force : BOOLEAN, template : Templates \cup {NoTemplate},
            add_bin_dir : BOOLEAN, add_bash_wrapper : BOOLEAN, no_aliases : BOOLEAN,
            no_shell_check : BOOLEAN, no_functions_dir : BOOLEAN, no_git_init : BOOLEAN,
            no_github_dir : BOOLEAN, no_readme : BOOLEAN, no_shell_spec : BOOLEAN,
            gihub_user : {IdleUser}, use_zplugins : BOOLEAN, description : {NoDescription},
            name : {""}] :
        /\ c.template # NoTemplate => \A k \in ToggleFields : ~c[k]
        /\ Cardinality({k \in ToggleFields : c[k]}) <= MaxFlags}

(* the working directories the program is started in *)
StartDirectories ==
    {[p \in D |-> IF p = WorkDir THEN w ELSE Dir] :
        D \in {{WorkDir}, {WorkDir, "zsh-my_plugin-plugin"}}, w \in {Dir, DirNoSearch}}

Init ==
    /\ pc = "main"
    /\ fs \in StartDirectories
    /\ Idle({"fs"})

(* main: Cli::parse (the NAME argument goes through Name::from_str, a      *)
(* rejected name ends the process with clap's usage error), then           *)
(* InitCommand::execute up to the call of init_new_plugin.                 *)
(* main that starts the generation whether or not the name parsed *)
Main_generates_unvalidated ==
    /\ pc = "main"
    /\ \E r \in CliNames, args \in CliCommands :
          /\ raw' = r
          /\ name' = from_str(r)
          /\ force' = args.force
          /\ cmd' = normalize([args EXCEPT !.name = r])
          /\ ctx' = ContextFrom(cmd')
          /\ pc' = "root"
          /\ exit_code' = "none"
    /\ runs' = runs + 1
    /\ UNCHANGED <<fs, result, progress, call>>

Main ==
    /\ pc = "main"
    /\ \E r \in CliNames, args \in CliCommands :
          /\ raw' = r
          /\ name' = from_str(r)
          /\ IF name'.ok
             THEN /\ force' = args.force
                  /\ cmd' = normalize([args EXCEPT !.name = name'.value])
                  /\ ctx' = ContextFrom(cmd')
                  /\ pc' = "root"
                  /\ exit_code' = "none"
             ELSE /\ pc' = "exit"
                  /\ exit_code' = "USAGE"
                  /\ UNCHANGED <<cmd, force, ctx>>
    /\ runs' = runs + 1
    /\ UNCHANGED <<fs, result, progress, call>>

(* the statements with README.md rendered before the Bash wrapper *)
PlanPositions_readme_first ==
    <<"root", "git_init", "gitignore", "github_dir", "workflows_dir", "shell_yml",
      "bin_dir", "bin_keep", "functions_dir", "functions_example",
      "makefile", "readme", "bash_wrapper", "plugin_source">>

(* the order of the statements of init_new_plugin, by position *)
PlanPositions ==
    <<"root", "git_init", "gitignore", "github_dir", "workflows_dir", "shell_yml",
      "bin_dir", "bin_keep", "functions_dir", "functions_example",
      "makefile", "bash_wrapper", "readme", "plugin_source">>

(* the position reached from `here` by passing over n statements; past the *)
(* last one the function returns                                           *)
PositionAfter(here, n) ==
    LET i == CHOOSE k \in 1..Len(PlanPositions) : PlanPositions[k] = here
    IN  IF i + n <= Len(PlanPositions) THEN PlanPositions[i + n] ELSE "returned"

(* how the process ends when a print macro panics: exit status 101, no     *)
(* ExitCode of the program                                                 *)
Panicked == "PANIC"

(* the three ways a plan step leaves init_new_plugin's control flow *)
Fail(e) ==
    /\ pc' = "returned"
    /\ result' = e
    /\ UNCHANGED <<raw, name, cmd, force, ctx, fs, progress, call, exit_code, runs>>

Skip(next) ==
    /\ pc' = next
    /\ UNCHANGED <<raw, name, cmd, force, ctx, fs, result, progress, call, exit_code, runs>>

(* a step whose error is kept but does not end the function *)
Proceed_keeps_going(r, step, next) ==
    /\ fs' = r.fs
    /\ pc' = next
    /\ IF r.res.ok
       THEN progress' = Append(progress, step) /\ UNCHANGED result
       ELSE result' = r.res /\ UNCHANGED progress
    /\ UNCHANGED <<raw, name, cmd, force, ctx, call, exit_code, runs>>

(* `step(..)?`: go on after Ok, return the error otherwise *)
Proceed(r, step, next) ==
    /\ fs' = r.fs
    /\ IF r.res.ok
       THEN pc' = next /\ progress' = Append(progress, step) /\ UNCHANGED result
       ELSE pc' = "returned" /\ result' = r.res /\ UNCHANGED progress
    /\ UNCHANGED <<raw, name, cmd, force, ctx, call, exit_code, runs>>

(* `if ctx_get_bool(&ctx, key)? { body } ` *)
Gated(key, body, next) ==
    LET g == ctx_get_bool(ctx, key)
    IN  IF ~g.ok THEN Fail(g) ELSE IF g.value THEN body ELSE Skip(next)

Root == target_root(plugin_name_of(ctx).value)

MakeDirectoryStep(path, next) ==
    \E io \in IoOutcomes :
        Proceed(make_directory(fs, path, force, io), DirectoryStep(path), next)

RenderTemplateStep(template, path, next) ==
    \E render_ok \in BOOLEAN, io \in IoOutcomes :
        Proceed(render_template(fs, ctx, template, path, force, render_ok, io),
                RenderStep(template, path), next)

GenRootDirectory ==
    /\ pc = "root"
    /\ IF ~plugin_name_of(ctx).ok THEN Fail(plugin_name_of(ctx))
       ELSE MakeDirectoryStep(Root, PositionAfter(pc, 1))

GenRepository ==
    /\ pc = "git_init"
    /\ Gated(O_INCLUDE_GIT_INIT,
             \E git \in IoOutcomes :
                 Proceed(make_repository(fs, Root, force, git), RepositoryStep(Root), PositionAfter(pc, 1)),
             PositionAfter(pc, 2))

GenGitIgnore ==
    /\ pc = "gitignore"
    /\ RenderTemplateStep(T_GIT_IGNORE, join(Root, P_DOT_GITIGNORE), PositionAfter(pc, 1))

GenGithubDir ==
    /\ pc = "github_dir"
    /\ Gated(O_INCLUDE_GITHUB_DIR,
             MakeDirectoryStep(join(Root, P_GITHUB_DIR), PositionAfter(pc, 1)),
             PositionAfter(pc, 3))

GenWorkflowsDir ==
    /\ pc = "workflows_dir"
    /\ MakeDirectoryStep(join(join(Root, P_GITHUB_DIR), P_WORKFLOWS_DIR), PositionAfter(pc, 1))

GenShellYml ==
    /\ pc = "shell_yml"
    /\ RenderTemplateStep(T_GITHUB_WORFLOW_SHELL,
                          join(join(join(Root, P_GITHUB_DIR), P_WORKFLOWS_DIR), P_SHELL_YML),
                          PositionAfter(pc, 1))

GenBinDir ==
    /\ pc = "bin_dir"
    /\ Gated(O_INCLUDE_BIN_DIR,
             MakeDirectoryStep(join(Root, P_BIN_DIR), PositionAfter(pc, 1)),
             PositionAfter(pc, 2))

GenBinKeep ==
    /\ pc = "bin_keep"
    /\ RenderTemplateStep(T_BIN_DIR_KEEP, join(join(Root, P_BIN_DIR), P_DOT_KEEP), PositionAfter(pc, 1))

GenFunctionsDir ==
    /\ pc = "functions_dir"
    /\ Gated(O_INCLUDE_FUNCTIONS_DIR,
             MakeDirectoryStep(join(Root, P_FUNCTIONS_DIR), PositionAfter(pc, 1)),
             PositionAfter(pc, 2))

GenFunctionsExample ==
    /\ pc = "functions_example"
    /\ RenderTemplateStep(T_FUNCTIONS_EXAMPLE,
                          join(join(Root, P_FUNCTIONS_DIR), plugin_name_of(ctx).value \o "_example"),
                          PositionAfter(pc, 1))

(* the Makefile rendered whatever the two checks are *)
GenMakefile_unconditional ==
    /\ pc = "makefile"
    /\ RenderTemplateStep(T_MAKEFILE, join(Root, P_MAKEFILE), PositionAfter(pc, 1))

(* `ctx_get_bool(shell_check)? || ctx_get_bool(shell_spec)?` *)
GenMakefile ==
    /\ pc = "makefile"
    /\ LET check == ctx_get_bool(ctx, O_INCLUDE_SHELL_CHECK)
           spec == ctx_get_bool(ctx, O_INCLUDE_SHELL_SPEC)
       IN  IF ~check.ok THEN Fail(check)
           ELSE IF check.value THEN RenderTemplateStep(T_MAKEFILE, join(Root, P_MAKEFILE), PositionAfter(pc, 1))
           ELSE IF ~spec.ok THEN Fail(spec)
           ELSE IF spec.value THEN RenderTemplateStep(T_MAKEFILE, join(Root, P_MAKEFILE), PositionAfter(pc, 1))
           ELSE Skip(PositionAfter(pc, 1))

GenBashWrapper ==
    /\ pc = "bash_wrapper"
    /\ Gated(O_INCLUDE_BASH_WRAPPER,
             RenderTemplateStep(T_PLUGIN_WRAPPER, join(Root, plugin_name_of(ctx).value \o ".bash"), PositionAfter(pc, 1)),
             PositionAfter(pc, 1))

GenReadme ==
    /\ pc = "readme"
    /\ Gated(O_INCLUDE_README,
             RenderTemplateStep(T_README, join(Root, P_README), PositionAfter(pc, 1)),
             PositionAfter(pc, 1))

(* the last step, then `report_progress!(done)` and `Ok(ExitCode::SUCCESS)`. *)
(* println!(" Done") writes the line, with the dots the steps left in the  *)
(* buffer of standard output, and panics when that write fails: the        *)
(* process then ends with status 101 and init_new_plugin returns nothing.  *)
GenPluginSource ==
    /\ pc = "plugin_source"
    /\ LET z == ctx_get_bool(ctx, O_USE_ZPLUGINS)
           path == join(Root, plugin_name_of(ctx).value \o ".plugin.zsh")
       IN  IF ~z.ok THEN Fail(z)
           ELSE LET template == IF z.value THEN T_PLUGIN_SOURCE_ZPLUGINS ELSE T_PLUGIN_SOURCE
                IN  \E render_ok \in BOOLEAN, io \in IoOutcomes :
                      LET r == render_template(fs, ctx, template, path, force, render_ok, io)
                      IN  /\ fs' = r.fs
                          /\ IF r.res.ok
                             THEN /\ progress' = Append(progress, RenderStep(template, path))
                                  /\ \E printed \in BOOLEAN :
                                        IF printed
                                        THEN /\ pc' = PositionAfter(pc, 1)
                                             /\ result' = Ok("SUCCESS")
                                             /\ UNCHANGED exit_code
                                        ELSE /\ pc' = "exit"
                                             /\ exit_code' = Panicked
                                             /\ UNCHANGED result
                             ELSE /\ pc' = "returned"
                                  /\ result' = r.res
                                  /\ UNCHANGED <<progress, exit_code>>
                          /\ UNCHANGED <<raw, name, cmd, force, ctx, call, runs>>

(* InitCommand::execute, the match on what init_new_plugin returned: every *)
(* arm returns Ok(..); the arms of the errors first write a message with   *)
(* eprintln!, which panics when the write to standard error fails          *)
(* execute that hands the error of init_new_plugin on to main *)
ExecuteReturn_propagates_error ==
    /\ pc = "returned"
    /\ exit_code' = IF result.ok THEN result.value ELSE "Err"
    /\ pc' = "exit"
    /\ UNCHANGED <<raw, name, cmd, force, ctx, fs, result, progress, call, runs>>

ExecuteReturn ==
    /\ pc = "returned"
    /\ IF result.ok
       THEN exit_code' = result.value
       ELSE \E printed \in BOOLEAN : exit_code' = IF printed THEN "FAILURE" ELSE Panicked
    /\ pc' = "exit"
    /\ UNCHANGED <<raw, name, cmd, force, ctx, fs, result, progress, call, runs>>

(* the program is started again in the same working directory *)
RunAgain ==
    /\ pc = "exit"
    /\ runs < MaxRuns
    /\ pc' = "main"
    /\ raw' = ""
    /\ name' = Pending
    /\ cmd' = DefaultCommand("", IdleUser)
    /\ force' = FALSE
    /\ ctx' = Context_new
    /\ result' = Pending
    /\ progress' = <<>>
    /\ exit_code' = "none"
    /\ UNCHANGED <<fs, call, runs>>

Generate ==
    \/ GenRootDirectory \/ GenRepository \/ GenGitIgnore
    \/ GenGithubDir \/ GenWorkflowsDir \/ GenShellYml
    \/ GenBinDir \/ GenBinKeep
    \/ GenFunctionsDir \/ GenFunctionsExample
    \/ GenMakefile \/ GenBashWrapper \/ GenReadme \/ GenPluginSource

Next == Main \/ Generate \/ ExecuteReturn \/ RunAgain

Spec == Init /\ [][Next]_vars

----------------------------------------------------------------------------
(* InitCommand::execute on every command clap accepts, in an empty working *)
(* directory the process may search: `cmd` keeps the command as it was     *)
(* given, the context is built from its normalized form.  After a          *)
(* successful generation init_new_plugin may be called again with the same *)
(* context and force = true; `call` then keeps the filesystem the earlier  *)
(* generation left.                                                        *)

GenNames == {"my-plugin", "Foo_Bar"}

(* what clap accepts: --template conflicts with each of the nine toggles;   *)
(* at most MaxFlags of the toggles are given at once                       *)
GenCommands ==
    {c \in [force : BOOLEAN, template : Templates \cup {NoTemplate},
            add_bin_dir : BOOLEAN, add_bash_wrapper : BOOLEAN, no_aliases : BOOLEAN,
            no_shell_check : BOOLEAN, no_functions_dir : BOOLEAN, no_git_init : BOOLEAN,
            no_github_dir : BOOLEAN, no_readme : BOOLEAN, no_shell_spec : BOOLEAN,
            gihub_user : {IdleUser}, use_zplugins : BOOLEAN, description : {NoDescription},
            name : GenNames] :
        /\ c.template # NoTemplate => \A k \in ToggleFields : ~c[k]
        /\ Cardinality({k \in ToggleFields : c[k]}) <= MaxFlags}

InitGen ==
    /\ pc = "gen_input"
    /\ cmd \in GenCommands
    /\ Idle({"cmd"})

(* InitCommand::execute up to the call: `let force = self.force();         *)
(* self.normalize(); init_new_plugin(self.into(), force)`                  *)
CallInitNewPlugin ==
    /\ pc = "gen_input"
    /\ force' = cmd.force
    /\ ctx' = ContextFrom(normalize(cmd))
    /\ pc' = "root"
    /\ runs' = runs + 1
    /\ UNCHANGED <<raw, name, cmd, fs, result, progress, call, exit_code>>

(* `init_new_plugin(ctx, true)` once more after Ok *)
Regenerate ==
    /\ pc = "returned"
    /\ result.ok
    /\ runs < MaxRuns
    /\ call' = [op |-> "regenerate", fs |-> fs, progress |-> progress]
    /\ force' = TRUE
    /\ pc' = "root"
    /\ result' = Pending
    /\ progress' = <<>>
    /\ runs' = runs + 1
    /\ UNCHANGED <<raw, name, cmd, ctx, fs, exit_code>>

NextGen == CallInitNewPlugin \/ Generate \/ Regenerate

SpecGen == InitGen /\ [][NextGen]_vars

----------------------------------------------------------------------------
(* Properties of name validation (SpecName) *)

AsciiLetters == CharsOf(LowerCase) \cup CharsOf(UpperCase)
NameChars == AsciiLetters \cup CharsOf(Digits) \cup {"-", "_"}

WellFormedName(s) ==
    /\ Len(s) > 0
    /\ CharAt(s, 1) \in AsciiLetters
    /\ \A i \in 2..Len(s) : CharAt(s, i) \in NameChars

NameParsed == pc \in {"cmd", "name_rejected", "normalized", "context"} /\ call = NoCall

(* C1: Name::from_str(s) succeeds if and only if s is non-empty, starts    *)
(* with an ASCII letter and continues with ASCII letters, digits, '-' or   *)
(* '_' only.                                                               *)
NameAcceptedIffWellFormed ==
    NameParsed => (name.ok <=> WellFormedName(raw))

NameAcceptedWitness ==
    /\ pc = "cmd" /\ name.ok
    /\ Len(raw) = 3 /\ CharAt(raw, 2) = "-" /\ CharAt(raw, 3) = "2"

(* C2: a rejected name carries the kind of the first violated rule: Empty  *)
(* for the empty string, InvalidInitialChar when the first character is    *)
(* not an ASCII letter whatever follows, InvalidChar when the first        *)
(* character is a letter and a later one is outside [A-Za-z0-9_-].         *)
NameErrorKindByFirstViolation ==
    (NameParsed /\ ~name.ok) =>
        /\ name.kind = "InvalidName"
        /\ name.name_kind \in NameErrorKind
        /\ name.name_kind = "Empty" <=> Len(raw) = 0
        /\ name.name_kind = "InvalidInitialChar" <=>
               (Len(raw) > 0 /\ CharAt(raw, 1) \notin AsciiLetters)
        /\ name.name_kind = "InvalidChar" <=>
               (Len(raw) > 0 /\ CharAt(raw, 1) \in AsciiLetters
                /\ \E i \in 2..Len(raw) : CharAt(raw, i) \notin NameChars)

NameErrorKindWitness ==
    /\ pc = "name_rejected"
    /\ name.kind = "InvalidName" /\ name.name_kind = "InvalidInitialChar"
    /\ \E i \in 2..Len(raw) : CharAt(raw, i) \notin NameChars

(* C6: for a valid identifier the display name is the raw input unchanged, *)
(* plugin_name is the display name with every '-' replaced by '_', and     *)
(* plugin_var is plugin_name with every ASCII lower-case letter replaced   *)
(* by its upper-case letter.                                               *)
DerivedNamesFollowInput ==
    (pc = "context" /\ call = NoCall) =>
        LET display == ctx[V_PLUGIN_DISPLAY_NAME].s
            normalized == ctx[V_PLUGIN_NAME].s
            shout == ctx[V_PLUGIN_VAR].s
        IN  /\ display = raw
            /\ Len(normalized) = Len(display)
            /\ \A i \in 1..Len(display) :
                   CharAt(normalized, i) = IF CharAt(display, i) = "-" THEN "_" ELSE CharAt(display, i)
            /\ Len(shout) = Len(normalized)
            /\ \A i \in 1..Len(normalized) :
                   \/ \E k \in 1..Len(LowerCase) :
                          /\ CharAt(normalized, i) = CharAt(LowerCase, k)
                          /\ CharAt(shout, i) = CharAt(UpperCase, k)
                   \/ /\ CharAt(normalized, i) \notin CharsOf(LowerCase)
                      /\ CharAt(shout, i) = CharAt(normalized, i)

DerivedNamesWitness ==
    /\ pc = "context" /\ call = NoCall
    /\ raw = "a--"
    /\ ctx[V_PLUGIN_NAME].s = "a__"
    /\ ctx[V_PLUGIN_VAR].s = "A__"

----------------------------------------------------------------------------
(* Properties of the resolution of the toggles (SpecResolve) *)

(* the preset table: toggle -> value, by context key *)
PresetRow(t) ==
    [k \in {O_INCLUDE_BIN_DIR, O_INCLUDE_BASH_WRAPPER, O_INCLUDE_ALIASES,
            O_INCLUDE_FUNCTIONS_DIR, O_INCLUDE_GITHUB_DIR, O_INCLUDE_GIT_INIT,
            O_INCLUDE_README, O_INCLUDE_SHELL_CHECK, O_INCLUDE_SHELL_SPEC} |->
        IF t = "Minimal" THEN k = O_INCLUDE_GIT_INIT
        ELSE IF t = "Simple" THEN k \in {O_INCLUDE_ALIASES, O_INCLUDE_GIT_INIT, O_INCLUDE_README,
                                         O_INCLUDE_SHELL_CHECK, O_INCLUDE_SHELL_SPEC}
        ELSE TRUE]

NineToggles == DOMAIN PresetRow("Complete")
TenToggles == NineToggles \cup {O_USE_ZPLUGINS}

Resolved == pc = "context" /\ call.op = "execute"

(* C3: with a preset, whatever the explicit toggles were, the nine         *)
(* resolved toggles are the preset's row of the table.                     *)
PresetYieldsTableRow ==
    (Resolved /\ call.cmd.template \in Templates) =>
        \A k \in NineToggles : ctx[k] = Bool(PresetRow(call.cmd.template)[k])

PresetYieldsTableRowWitness ==
    /\ Resolved
    /\ call.cmd.template = "Minimal"
    /\ call.cmd.no_git_init /\ call.cmd.add_bin_dir /\ ~call.cmd.no_readme
    /\ ctx[O_INCLUDE_GIT_INIT] = Bool(TRUE) /\ ctx[O_INCLUDE_BIN_DIR] = Bool(FALSE)

(* the explicit value of each toggle: on unless negated, or off unless added *)
ExplicitValue(c) ==
    [k \in NineToggles |->
        IF k = O_INCLUDE_BIN_DIR THEN c.add_bin_dir
        ELSE IF k = O_INCLUDE_BASH_WRAPPER THEN c.add_bash_wrapper
        ELSE IF k = O_INCLUDE_ALIASES THEN ~c.no_aliases
        ELSE IF k = O_INCLUDE_FUNCTIONS_DIR THEN ~c.no_functions_dir
        ELSE IF k = O_INCLUDE_GITHUB_DIR THEN ~c.no_github_dir
        ELSE IF k = O_INCLUDE_GIT_INIT THEN ~c.no_git_init
        ELSE IF k = O_INCLUDE_README THEN ~c.no_readme
        ELSE IF k = O_INCLUDE_SHELL_CHECK THEN ~c.no_shell_check
        ELSE ~c.no_shell_spec]

(* C4: without a preset, the resolved toggles are the explicit values.     *)
NoPresetKeepsExplicitToggles ==
    (Resolved /\ call.cmd.template = NoTemplate) =>
        \A k \in NineToggles : ctx[k] = Bool(ExplicitValue(call.cmd)[k])

(* the toggles resolved from the command line that gives only the preset *)
ResolvedFromPresetAlone(t) ==
    ContextFrom(normalize([DefaultCommand("my-plugin", IdleUser) EXCEPT !.template = t]))

(* C5 as stated: with a preset, all ten toggles are a function of the      *)
(* preset alone (they equal those of any other command with that preset).  *)
PresetDeterminesTenToggles ==
    (Resolved /\ call.cmd.template \in Templates) =>
        \A k \in TenToggles : ctx[k] = ResolvedFromPresetAlone(call.cmd.template)[k]

(* C5 amended: with a preset, the nine include toggles are a function of   *)
(* the preset alone, and use_zplugins is the value given on the command    *)
(* line.                                                                   *)
PresetDeterminesNineToggles ==
    (Resolved /\ call.cmd.template \in Templates) =>
        /\ \A k \in NineToggles : ctx[k] = ResolvedFromPresetAlone(call.cmd.template)[k]
        /\ ctx[O_USE_ZPLUGINS] = Bool(call.cmd.use_zplugins)

PresetDeterminesNineTogglesWitness ==
    /\ Resolved
    /\ call.cmd.template = "Simple"
    /\ call.cmd.use_zplugins /\ call.cmd.no_readme
    /\ ctx[O_USE_ZPLUGINS] = Bool(TRUE) /\ ctx[O_INCLUDE_README] = Bool(TRUE)

----------------------------------------------------------------------------
(* Properties of a single plan step (SpecStep) *)

(* the path a step tests and reports: make_repository tests path/.git *)
Target(c) == IF c.op = "make_repository" THEN join(c.path, ".git") ELSE c.path

(* the kind of node a step leaves at its target *)
ProducedKind(c) == IF c.op = "render_template" THEN "file" ELSE "dir"

StepTaken == pc = "call" /\ pc' = "returned"

(* the node is there, whether or not the process can stat it *)
Present(f, path) == path \in DOMAIN f

(* what a step returns when the operation behind its guard fails *)
CollaboratorErrors == {"Io", "GitInit", "Template"}

(* C7 as stated: a step whose target exists while force is false fails     *)
(* with TargetExists carrying the target and leaves the filesystem         *)
(* unchanged.                                                              *)
ExistingTargetWithoutForceFails ==
    [][(StepTaken /\ Present(fs, Target(call)) /\ ~call.force) =>
          (result' = ErrTargetExists(Target(call)) /\ fs' = fs)]_vars

(* C7 amended: a step whose target exists while force is false makes no    *)
(* change to the filesystem.  It fails with TargetExists carrying the      *)
(* target when the process can stat the target; a target below a directory *)
(* without search permission is taken as absent, and the step fails with   *)
(* the error of the operation it then attempts.                            *)
VisibleTargetWithoutForceFails ==
    [][(StepTaken /\ Present(fs, Target(call)) /\ ~call.force) =>
          /\ fs' = fs
          /\ IF CanStat(fs, Target(call))
             THEN result' = ErrTargetExists(Target(call))
             ELSE result'.kind \in CollaboratorErrors]_vars

VisibleTargetWithoutForceWitness ==
    /\ pc = "returned"
    /\ call.op = "render_template" /\ ~call.force /\ call.io.ok /\ call.render_ok
    /\ call.found = "file"
    /\ CanStat(fs, call.path)
    /\ result = ErrTargetExists(call.path)
    /\ fs[call.path] = File(Text("old"))

(* C8 as stated: with force, a step whose target exists, whatever it is,   *)
(* does not fail with TargetExists.                                        *)
ExistingTargetWithForceNeverConflicts ==
    [][(StepTaken /\ Present(fs, Target(call)) /\ call.force) =>
          result'.kind # "TargetExists"]_vars

(* C8 amended: with force, a step whose target exists as the kind of node  *)
(* the step produces (a directory for ensure-directory and for the         *)
(* repository, a regular file for render) does not fail with TargetExists, *)
(* succeeds when the underlying operations succeed and leaves the target   *)
(* in place; a target of the other kind fails with TargetExists even with  *)
(* force.  A target the process cannot stat is taken as absent: the        *)
(* operation is attempted, fails with its own error and changes nothing.   *)
ExistingTargetWithForce ==
    [][(StepTaken /\ Present(fs, Target(call)) /\ call.force) =>
          IF ~CanStat(fs, Target(call))
          THEN result'.kind \in CollaboratorErrors /\ fs' = fs
          ELSE IF fs[Target(call)].kind = ProducedKind(call)
          THEN /\ result'.kind # "TargetExists"
               /\ (call.io.ok /\ call.render_ok) => (result'.ok /\ exists(fs', Target(call))
                                                     /\ fs'[Target(call)].kind = ProducedKind(call))
          ELSE result' = ErrTargetExists(Target(call)) /\ fs' = fs]_vars

ExistingTargetWithForceWitness ==
    /\ pc = "returned"
    /\ call.op = "make_directory" /\ call.force /\ call.io.ok
    /\ call.path = join(StepRoot, "bin")
    /\ call.found = "dir"
    /\ result.ok
    /\ is_dir(fs, call.path)

----------------------------------------------------------------------------
(* Properties of a whole generation (Spec) *)

(* the fixed order of the plan for plugin name n: operation and path *)
PlanOrder(n) ==
    LET root == "zsh-" \o n \o "-plugin"
    IN  << [op |-> "make_directory", path |-> root],
           [op |-> "make_repository", path |-> root],
           [op |-> "render_template", path |-> root \o "/.gitignore"],
           [op |-> "make_directory", path |-> root \o "/.github"],
           [op |-> "make_directory", path |-> root \o "/.github/workflows"],
           [op |-> "render_template", path |-> root \o "/.github/workflows/shell.yml"],
           [op |-> "make_directory", path |-> root \o "/bin"],
           [op |-> "render_template", path |-> root \o "/bin/.gitkeep"],
           [op |-> "make_directory", path |-> root \o "/functions"],
           [op |-> "render_template", path |-> root \o "/functions/" \o n \o "_example"],
           [op |-> "render_template", path |-> root \o "/Makefile"],
           [op |-> "render_template", path |-> root \o "/" \o n \o ".bash"],
           [op |-> "render_template", path |-> root \o "/README.md"],
           [op |-> "render_template", path |-> root \o "/" \o n \o ".plugin.zsh"] >>

(* index in the plan of the step that is prerequisite of step i (0: none): *)
(* the root for what lies in the root, the repository for .gitignore, the  *)
(* containing directory for the rest                                       *)
Prerequisite == <<0, 1, 2, 1, 4, 5, 1, 7, 1, 9, 1, 1, 1, 1>>

Done(i) == [op |-> progress[i].op, path |-> progress[i].path]

RECURSIVE IsSubsequence(_, _)
IsSubsequence(s, t) ==
    IF s = <<>> THEN TRUE
    ELSE IF t = <<>> THEN FALSE
    ELSE IF Head(s) = Head(t) THEN IsSubsequence(Tail(s), Tail(t))
    ELSE IsSubsequence(s, Tail(t))

Generating == pc \in ({PlanPositions[i] : i \in 1..Len(PlanPositions)} \cup {"returned", "exit"}) /\ name.ok

(* the error a failing step at plan index i may return *)
IsErrorOfStep(e, i, n) ==
    LET st == PlanOrder(n)[i]
    IN  \/ e.kind = "TargetExists" /\ e.path = (IF st.op = "make_repository" THEN st.path \o "/.git" ELSE st.path)
        \/ e.kind = "Io" /\ e.source.path = st.path /\ st.op # "make_repository"
        \/ e.kind = "GitInit" /\ e.source.path = st.path /\ st.op = "make_repository"
        \/ e.kind = "Template" /\ st.op = "render_template"

Failed(r) == r.kind \notin {"Pending", "Ok"}

(* what every completed step produced is in the filesystem *)
CompletedStepsRemain ==
    \A i \in 1..Len(progress) :
        IF progress[i].op = "render_template"
        THEN is_file(fs, progress[i].path) /\ fs[progress[i].path].content.template = progress[i].template
        ELSE IF progress[i].op = "make_repository"
        THEN is_dir(fs, progress[i].path \o "/.git")
        ELSE is_dir(fs, progress[i].path)

(* C9 as stated: generation is fail-fast without rollback.  The step that fails ends *)
(* init_new_plugin with its own error and changes nothing; after a failure *)
(* no step runs and the filesystem stays as the completed steps left it;   *)
(* what the completed steps created remains.                               *)
FailFastWithoutRollback ==
    /\ [](Generating => CompletedStepsRemain)
    /\ [](Failed(result) => pc \in {"returned", "exit"})
    /\ [][(Generating /\ ~Failed(result) /\ Failed(result')) =>
            /\ pc' = "returned"
            /\ fs' = fs /\ progress' = progress
            /\ \E i \in 1..Len(PlanPositions) :
                  /\ PlanPositions[i] = pc
                  /\ IsErrorOfStep(result', i, ctx[V_PLUGIN_NAME].s)]_vars
    /\ [][Failed(result) => (fs' = fs /\ (progress' = progress \/ pc' = "main"))]_vars

(* C10: the completed steps form a subsequence of the fixed plan order;    *)
(* the first is the root directory, .gitignore follows the repository,     *)
(* every file follows its containing directory, and the main plugin        *)
(* source is the last step.                                                *)
StepsFollowPlanOrder ==
    (Generating /\ Len(progress) > 0) =>
        LET plan == PlanOrder(ctx[V_PLUGIN_NAME].s)
            Index(i) == CHOOSE k \in 1..Len(plan) : plan[k] = Done(i)
        IN  /\ IsSubsequence([i \in 1..Len(progress) |-> Done(i)], plan)
            /\ Done(1) = plan[1]
            /\ \A i \in 2..Len(progress) :
                   \E j \in 1..(i - 1) : Done(j) = plan[Prerequisite[Index(i)]]
            /\ \A i \in 1..Len(progress) :
                   Done(i) = plan[Len(plan)] => i = Len(progress)
            /\ (result.ok => Done(Len(progress)) = plan[Len(plan)])

StepsFollowPlanOrderWitness ==
    /\ pc = "exit" /\ exit_code = "SUCCESS"
    /\ cmd.template = "Complete"
    /\ Len(progress) = 14
    /\ raw = "my-plugin"
    /\ progress[14].path = "zsh-my_plugin-plugin/my_plugin.plugin.zsh"

----------------------------------------------------------------------------
(* Properties of whole runs of the program (Spec), continued *)

(* a boolean switch of the context *)
On(k) == ctx[k].b

(* the first run of the program in its working directory returned Ok *)
FirstRunSucceeded == pc = "returned" /\ result.ok /\ runs = 1

ScenarioA == FirstRunSucceeded /\ raw = "my-plugin" /\ cmd.template = "Minimal" /\ ~force

ScenarioARoot == "zsh-my_plugin-plugin"

(* C12: "my-plugin" with Minimal and no force onto a non-existent target   *)
(* gives the root zsh-my_plugin-plugin, a repository, holding only         *)
(* my_plugin.plugin.zsh and no other generated file or directory.          *)
MinimalHoldsOnlyPluginSource ==
    ScenarioA =>
        /\ is_dir(fs, ScenarioARoot)
        /\ is_dir(fs, ScenarioARoot \o "/.git")
        /\ is_file(fs, ScenarioARoot \o "/my_plugin.plugin.zsh")
        /\ DOMAIN fs = {WorkDir, ScenarioARoot, ScenarioARoot \o "/.git",
                        ScenarioARoot \o "/my_plugin.plugin.zsh"}

(* C13 as stated: when the root exists and force is off, init_new_plugin  *)
(* fails on its first step with TargetExists of the root, runs no other    *)
(* step and leaves the filesystem as it was.                               *)
ExistingRootWithoutForceFailsFirst ==
    /\ [][(pc = "root" /\ Present(fs, "zsh-" \o ctx[V_PLUGIN_NAME].s \o "-plugin") /\ ~force) =>
            /\ result' = ErrTargetExists("zsh-" \o ctx[V_PLUGIN_NAME].s \o "-plugin")
            /\ pc' = "returned"
            /\ fs' = fs
            /\ progress' = <<>>]_vars
    /\ []((pc \in {"returned", "exit"} /\ result.kind = "TargetExists"
             /\ result.path = "zsh-" \o ctx[V_PLUGIN_NAME].s \o "-plugin") => progress = <<>>)

(* C13 amended: when the root exists and force is off, init_new_plugin     *)
(* fails on its first step, runs no other step and leaves the filesystem   *)
(* as it was.  The error is TargetExists of the root when the process can  *)
(* stat the root; in a working directory without search permission the     *)
(* root is taken as absent and the error is that of create_dir_all.        *)
ExistingRootWithoutForceFailsUnchanged ==
    /\ [][(pc = "root" /\ Present(fs, "zsh-" \o ctx[V_PLUGIN_NAME].s \o "-plugin") /\ ~force) =>
            /\ result' = IF CanStat(fs, "zsh-" \o ctx[V_PLUGIN_NAME].s \o "-plugin")
                         THEN ErrTargetExists("zsh-" \o ctx[V_PLUGIN_NAME].s \o "-plugin")
                         ELSE ErrIo("create_dir_all", "zsh-" \o ctx[V_PLUGIN_NAME].s \o "-plugin")
            /\ pc' = "returned"
            /\ fs' = fs
            /\ progress' = <<>>]_vars
    /\ []((pc \in {"returned", "exit"} /\ result.kind \in {"TargetExists", "Io"}
             /\ result \in {ErrTargetExists("zsh-" \o ctx[V_PLUGIN_NAME].s \o "-plugin"),
                             ErrIo("create_dir_all", "zsh-" \o ctx[V_PLUGIN_NAME].s \o "-plugin")})
            => progress = <<>>)

ExistingRootWithoutForceWitness ==
    /\ pc = "returned" /\ runs = 2 /\ ~force
    /\ raw = "my-plugin"
    /\ result = ErrTargetExists("zsh-my_plugin-plugin")
    /\ progress = <<>>
    /\ is_file(fs, "zsh-my_plugin-plugin/my_plugin.plugin.zsh")

(* C14: an invalid name is rejected before the filesystem is touched:      *)
(* "2bad" fails with InvalidInitialChar, and a run whose name failed       *)
(* makes no directory, initialises no repository and writes no file.       *)
InvalidNameTouchesNothing ==
    /\ []((raw = "2bad" /\ name # Pending) => name = ErrInvalidName("InvalidInitialChar"))
    /\ [](name.kind = "InvalidName" => (pc = "exit" /\ progress = <<>> /\ result = Pending))
    /\ [][(name.kind = "InvalidName" \/ name'.kind = "InvalidName") => fs' = fs]_vars
    /\ [][(pc = "main" /\ ~from_str(raw').ok) => (pc' = "exit" /\ fs' = fs)]_vars

InvalidNameWitness ==
    /\ pc = "exit" /\ raw = "2bad"
    /\ name = ErrInvalidName("InvalidInitialChar")
    /\ exit_code = "USAGE"
    /\ fs = EmptyFs

(* path is `root` or below it *)
UnderRoot(path, root) ==
    \/ path = root
    \/ Len(path) > Len(root) + 1 /\ SubSeq(path, 1, Len(root) + 1) = root \o "/"

(* the paths a step added to the filesystem or changed in it *)
Touched == {p \in DOMAIN fs' : p \notin DOMAIN fs \/ fs'[p] # fs[p]}

(* C15: the root is "zsh-" + normalized name + "-plugin", and every path   *)
(* a run creates, initialises or writes, whether it succeeds or fails, is  *)
(* the root or below it; nothing else is touched or removed.               *)
OnlyRootIsTouched ==
    /\ [][/\ DOMAIN fs \subseteq DOMAIN fs'
          /\ \A p \in Touched :
                UnderRoot(p, "zsh-" \o replace(raw, "-", "_") \o "-plugin")]_vars
    /\ []((pc \notin {"main", "exit"} /\ Len(progress) > 0) =>
            is_dir(fs, "zsh-" \o replace(raw, "-", "_") \o "-plugin"))

OnlyRootIsTouchedWitness ==
    /\ pc = "returned" /\ runs = 2
    /\ raw = "my-plugin"
    /\ Failed(result) /\ Len(progress) >= 2
    /\ \A p \in DOMAIN fs \ {WorkDir} : UnderRoot(p, "zsh-my_plugin-plugin")
    /\ \E p \in DOMAIN fs : fs[p] = File(Text(""))
    /\ is_dir(fs, "zsh-my_plugin-plugin/.git")

(* C16: with the Minimal template the generated plugin has no Git          *)
(* directory, no bin or functions directory, no GitHub workflows and no    *)
(* aliases, shellcheck or shellspec support.                               *)
MinimalHasNoGitDirectory ==
    (FirstRunSucceeded /\ cmd.template = "Minimal") =>
        LET root == "zsh-" \o ctx[V_PLUGIN_NAME].s \o "-plugin"
        IN  /\ ~exists(fs, root \o "/.git")
            /\ ~exists(fs, root \o "/bin")
            /\ ~exists(fs, root \o "/functions")
            /\ ~exists(fs, root \o "/.github")
            /\ ~On(O_INCLUDE_ALIASES)
            /\ ~On(O_INCLUDE_SHELL_CHECK)
            /\ ~On(O_INCLUDE_SHELL_SPEC)

----------------------------------------------------------------------------
(* Properties of a generation from every accepted command (SpecGen) *)

(* the first generation, into the empty working directory, returned Ok *)
GeneratedOnce == pc = "returned" /\ result.ok /\ call = NoCall /\ runs = 1

(* C11: after a successful generation onto a non-existent root each        *)
(* artifact exists exactly when its toggle is on: repository and           *)
(* .gitignore with git-init, shell.yml with github-dir, bin/.gitkeep with  *)
(* bin-dir, the example function with functions-dir, Makefile with         *)
(* shell-check or shell-spec, the wrapper with bash-wrapper, README.md     *)
(* with readme; the main plugin source always, from the zplugins variant   *)
(* exactly when use_zplugins is on.                                        *)
ArtifactsMatchToggles ==
    GeneratedOnce =>
        LET n == ctx[V_PLUGIN_NAME].s
            root == "zsh-" \o n \o "-plugin"
            source == root \o "/" \o n \o ".plugin.zsh"
        IN  /\ is_dir(fs, root)
            /\ is_dir(fs, root \o "/.git") <=> On(O_INCLUDE_GIT_INIT)
            /\ is_file(fs, root \o "/.gitignore") <=> On(O_INCLUDE_GIT_INIT)
            /\ is_file(fs, root \o "/.github/workflows/shell.yml") <=> On(O_INCLUDE_GITHUB_DIR)
            /\ is_file(fs, root \o "/bin/.gitkeep") <=> On(O_INCLUDE_BIN_DIR)
            /\ is_file(fs, root \o "/functions/" \o n \o "_example") <=> On(O_INCLUDE_FUNCTIONS_DIR)
            /\ is_file(fs, root \o "/Makefile") <=>
                   (On(O_INCLUDE_SHELL_CHECK) \/ On(O_INCLUDE_SHELL_SPEC))
            /\ is_file(fs, root \o "/" \o n \o ".bash") <=> On(O_INCLUDE_BASH_WRAPPER)
            /\ is_file(fs, root \o "/README.md") <=> On(O_INCLUDE_README)
            /\ is_file(fs, source)
            /\ fs[source].content.template = T_PLUGIN_SOURCE_ZPLUGINS <=> On(O_USE_ZPLUGINS)
            /\ fs[source].content.template = T_PLUGIN_SOURCE <=> ~On(O_USE_ZPLUGINS)
            /\ (\A k \in NineToggles : On(k)) =>
                  \A p \in {"/.git", "/.gitignore", "/.github/workflows/shell.yml", "/bin/.gitkeep",
                             "/functions/" \o n \o "_example", "/Makefile", "/" \o n \o ".bash",
                             "/README.md", "/" \o n \o ".plugin.zsh"} : exists(fs, root \o p)

ArtifactsMatchTogglesWitness ==
    /\ GeneratedOnce
    /\ cmd.name = "Foo_Bar" /\ cmd.template = "Simple"
    /\ On(O_INCLUDE_SHELL_SPEC) /\ On(O_INCLUDE_README)
    /\ ~On(O_INCLUDE_FUNCTIONS_DIR) /\ ~On(O_INCLUDE_GITHUB_DIR)
    /\ is_file(fs, "zsh-Foo_Bar-plugin/Makefile")
    /\ is_file(fs, "zsh-Foo_Bar-plugin/README.md")
    /\ ~exists(fs, "zsh-Foo_Bar-plugin/functions")
    /\ ~exists(fs, "zsh-Foo_Bar-plugin/.github")

(* C17: the workflow file shell.yml is not created when shell-check and    *)
(* shell-spec are both disabled, on the command line or in the context,    *)
(* even with github-dir on.                                                *)
WorkflowNeedsACheck ==
    (/\ GeneratedOnce
     /\ \/ cmd.no_shell_check /\ cmd.no_shell_spec
        \/ ~On(O_INCLUDE_SHELL_CHECK) /\ ~On(O_INCLUDE_SHELL_SPEC)) =>
        ~exists(fs, "zsh-" \o ctx[V_PLUGIN_NAME].s \o "-plugin/.github/workflows/shell.yml")

(* C18: the context built from an InitCommand holds plugin_name as a       *)
(* string and the ten switches as booleans, and init_new_plugin never      *)
(* returns the Unknown error, whatever it has done before.                 *)
ContextKeysAlwaysPresent ==
    /\ result.kind # "Unknown"
    /\ pc # "gen_input" =>
          /\ ctx_get_str(ctx, V_PLUGIN_NAME).ok
          /\ \A k \in TenToggles : ctx_get_bool(ctx, k).ok

ContextKeysWitness ==
    /\ pc = "returned" /\ result.ok
    /\ Len(progress) = 14
    /\ On(O_USE_ZPLUGINS)

(* C20: regeneration under force is idempotent.  Run again with the same   *)
(* context and force after Ok, init_new_plugin never meets TargetExists;   *)
(* short of a collaborator failure it returns Ok, having taken the same    *)
(* steps, and the directories and files are those of the first run.  The   *)
(* failures that end it otherwise are those of the filesystem, of Git and  *)
(* of the template engine, and that of the output stream, after which the  *)
(* directories and files are those of the first run all the same.          *)
RegenerationIsIdempotent ==
    /\ [](call.op = "regenerate" =>
            /\ result.kind \in {"Pending", "Ok", "Io", "GitInit", "Template"}
            /\ DOMAIN fs = DOMAIN call.fs
            /\ \A p \in DOMAIN fs : fs[p].kind = call.fs[p].kind)
    /\ []((call.op = "regenerate" /\ pc = "returned" /\ result.ok) =>
            (fs = call.fs /\ progress = call.progress))
    /\ []((call.op = "regenerate" /\ pc \in {"returned", "exit"}) =>
            \/ result.ok
            \/ result.kind \in CollaboratorErrors
            \/ exit_code = Panicked /\ fs = call.fs /\ progress = call.progress)

RegenerationWitness ==
    /\ call.op = "regenerate" /\ pc = "returned" /\ result.ok
    /\ fs = call.fs
    /\ Len(progress) = 14
    /\ On(O_INCLUDE_GIT_INIT)

----------------------------------------------------------------------------
(* Properties of one step, continued (SpecStep) *)

(* C19: when rendering fails the render step returns the template error    *)
(* and the target is neither created nor modified; a file being            *)
(* overwritten under force keeps its previous content.                     *)
RenderFailureLeavesTarget ==
    [][(/\ pc = "call" /\ call.op = "render_template" /\ ~call.render_ok
        /\ (~exists(fs, call.path) \/ (is_file(fs, call.path) /\ call.force))) =>
            /\ result' = ErrTemplate(call.template)
            /\ fs' = fs]_vars

RenderFailureWitness ==
    /\ pc = "returned" /\ call.op = "render_template"
    /\ ~call.render_ok /\ call.io.ok /\ call.force /\ call.found = "file"
    /\ result = ErrTemplate(call.template)
    /\ fs[call.path] = File(Text("old"))

----------------------------------------------------------------------------
(* Properties of a generation from every accepted command, continued (SpecGen) *)

(* the first generation, without force, into the empty working directory *)
FreshUnforced == call = NoCall /\ runs = 1 /\ ~force

(* C21 as stated: a run never conflicts with itself.  From a missing root  *)
(* and without force, no step finds its target made by an earlier step,    *)
(* the targets of the steps taken are pairwise distinct, TargetExists is   *)
(* never returned, and a run in which no filesystem, Git or rendering      *)
(* operation failed returns Ok.                                            *)
RunNeverConflictsWithItself ==
    /\ [](FreshUnforced => result.kind \in {"Pending", "Ok", "Io", "GitInit", "Template"})
    /\ [](FreshUnforced =>
            \A i, j \in 1..Len(progress) : i # j => Target(progress[i]) # Target(progress[j]))
    /\ [][(FreshUnforced /\ Len(progress') = Len(progress) + 1) =>
            Target(progress'[Len(progress')]) \notin DOMAIN fs]_vars
    /\ []((FreshUnforced /\ pc \in {"returned", "exit"}) =>
            (result.ok \/ result.kind \in CollaboratorErrors))

(* C21 amended: a run never conflicts with itself.  From a missing root    *)
(* and without force, no step finds its target made by an earlier step,    *)
(* the targets of the steps taken are pairwise distinct and TargetExists   *)
(* is never returned.  A run in which no filesystem, Git or rendering      *)
(* operation failed takes every step of its plan; it returns Ok when the   *)
(* closing progress line can be written to standard output, and panics     *)
(* after the last step when it cannot.                                     *)
RunNeverConflictsOutputPermitting ==
    /\ [](FreshUnforced => result.kind \in {"Pending", "Ok", "Io", "GitInit", "Template"})
    /\ [](FreshUnforced =>
            \A i, j \in 1..Len(progress) : i # j => Target(progress[i]) # Target(progress[j]))
    /\ [][(FreshUnforced /\ Len(progress') = Len(progress) + 1) =>
            Target(progress'[Len(progress')]) \notin DOMAIN fs]_vars
    /\ []((FreshUnforced /\ pc \in {"returned", "exit"}) =>
            \/ result.kind \in CollaboratorErrors
            \/ /\ result.ok \/ (pc = "exit" /\ exit_code = Panicked /\ result = Pending)
               /\ Len(progress) > 0
               /\ progress[Len(progress)].path =
                     Root \o "/" \o ctx[V_PLUGIN_NAME].s \o ".plugin.zsh"
               /\ \A i \in 1..Len(progress) : exists(fs, Target(progress[i])))

RunNeverConflictsWitness ==
    /\ FreshUnforced /\ pc = "returned" /\ result.ok
    /\ cmd.name = "my-plugin"
    /\ Len(progress) = 14
    /\ \A i \in 1..14 : exists(fs, Target(progress[i]))

----------------------------------------------------------------------------
(* Properties of whole runs of the program, execute (Spec) *)

(* C22 as stated: execute never returns Err.  It returns Ok(SUCCESS)      *)
(* exactly when init_new_plugin returned Ok and Ok(FAILURE) for every      *)
(* error of init_new_plugin, whatever its kind.                            *)
ExecuteSurfacesOneOutcome ==
    /\ [](exit_code \in {"none", "USAGE", "SUCCESS", "FAILURE"})
    /\ []((pc = "exit" /\ name.ok) =>
            /\ exit_code \in {"SUCCESS", "FAILURE"}
            /\ exit_code = "SUCCESS" <=> result.ok
            /\ exit_code = "FAILURE" <=> Failed(result))
    /\ [][pc = "returned" => (result' = result /\ fs' = fs /\ pc' = "exit")]_vars

(* C22 amended: execute never returns Err.  It returns Ok(SUCCESS) exactly *)
(* when init_new_plugin returned Ok.  For every error of init_new_plugin,  *)
(* whatever its kind, it writes a message to standard error and returns    *)
(* Ok(FAILURE); when that write fails it panics instead and returns        *)
(* nothing.  The process also panics, after the last file is written,      *)
(* when init_new_plugin cannot write its closing progress line.            *)
ExecuteSurfacesOutcomeOrPanics ==
    /\ [](exit_code \in {"none", "USAGE", "SUCCESS", "FAILURE", Panicked})
    /\ []((pc = "exit" /\ name.ok) =>
            /\ exit_code \in {"SUCCESS", "FAILURE", Panicked}
            /\ exit_code = "SUCCESS" <=> result.ok
            /\ exit_code = "FAILURE" => Failed(result)
            /\ (exit_code = Panicked /\ ~Failed(result)) =>
                  /\ result = Pending
                  /\ Len(progress) > 0
                  /\ progress[Len(progress)].path =
                        Root \o "/" \o ctx[V_PLUGIN_NAME].s \o ".plugin.zsh"
                  /\ is_file(fs, progress[Len(progress)].path))
    /\ [][pc = "returned" =>
            /\ result' = result /\ fs' = fs /\ pc' = "exit"
            /\ exit_code' \in (IF result.ok THEN {"SUCCESS"} ELSE {"FAILURE", Panicked})]_vars

ExecuteSurfacesOneOutcomeWitness ==
    /\ pc = "exit" /\ name.ok
    /\ result.kind = "Io"
    /\ exit_code = "FAILURE"
    /\ Len(progress) >= 1

----------------------------------------------------------------------------
(* Properties of a whole generation, fail-fast (Spec) *)

PlanTemplates ==
    {T_BIN_DIR_KEEP, T_FUNCTIONS_EXAMPLE, T_GIT_IGNORE, T_GITHUB_WORFLOW_SHELL, T_MAKEFILE,
     T_PLUGIN_SOURCE, T_PLUGIN_SOURCE_ZPLUGINS, T_PLUGIN_WRAPPER, T_README}

(* C9 amended: generation is fail-fast without rollback.  The step that    *)
(* fails ends init_new_plugin with its own error and no later step runs;   *)
(* what the completed steps created remains, and the filesystem is as they *)
(* left it except, at most, for the target of the failing step: a render   *)
(* step whose write failed may leave its file created empty, truncated or  *)
(* partly written, and a repository step that failed may leave the .git    *)
(* directory it had made.  No other path is changed.                       *)
FailFastKeepsCompletedSteps ==
    /\ [](Generating => CompletedStepsRemain)
    /\ [](Failed(result) => pc \in {"returned", "exit"})
    /\ [][(Generating /\ ~Failed(result) /\ Failed(result')) =>
            /\ pc' = "returned"
            /\ progress' = progress
            /\ DOMAIN fs \subseteq DOMAIN fs'
            /\ \E i \in 1..Len(PlanPositions) :
                  /\ PlanPositions[i] = pc
                  /\ IsErrorOfStep(result', i, ctx[V_PLUGIN_NAME].s)
                  /\ \A p \in Touched :
                        LET st == PlanOrder(ctx[V_PLUGIN_NAME].s)[i]
                        IN  \/ /\ st = [op |-> "render_template", path |-> p]
                               /\ result' = ErrIo("write", p)
                               /\ \/ fs'[p] = File(Text(""))
                                  \/ \E t \in PlanTemplates :
                                        fs'[p] = File(PartOf([template |-> t]))
                            \/ /\ st.op = "make_repository"
                               /\ p = st.path \o "/.git"
                               /\ p \notin DOMAIN fs
                               /\ result' = ErrGitInit(st.path)
                               /\ fs'[p] = Dir]_vars
    /\ [][Failed(result) => (fs' = fs /\ (progress' = progress \/ pc' = "main"))]_vars

FailFastKeepsCompletedStepsWitness ==
    /\ pc = "returned" /\ runs = 1
    /\ Len(progress) = 2
    /\ result = ErrIo("write", Root \o "/.gitignore")
    /\ is_dir(fs, Root \o "/.git")
    /\ is_file(fs, Root \o "/.gitignore")
    /\ fs[Root \o "/.gitignore"] = File(Text(""))

====
